---------------------------- MODULE Spec2Model ----------------------------
(***************************************************************************)
(* Model of src/src/prompts.ts: the fuzzy-search adapters (searchProjects, *)
(* searchApps, searchSites), the result normalizer (isProject / isApp /    *)
(* isSite) and the four prompt flows (userPrompt, projectPrompt,           *)
(* appPrompt, sitePrompt).                                                 *)
(*                                                                         *)
(* JavaScript values:                                                      *)
(*   - a string is a sequence of one-character strings;                    *)
(*   - `undefined` in a string-typed place is the value undefined, which   *)
(*     is no sequence of characters;                                       *)
(*   - an object is a record; reading a field the object does not have     *)
(*     yields undefinedObj (see Field);                                    *)
(*   - an array is a sequence.  An array object that the code mutates in   *)
(*     place is a variable (fetched).                                      *)
(***************************************************************************)
EXTENDS Integers, Sequences, FiniteSets, TLC

VARIABLES
    flow,        \* which flow was invoked: "none" | "user" | "project" | "app" | "site"
    pc,          \* position of the async flow function
    listPromise, \* state of the list promise: "none" | "pending" | "resolved" | "rejected"
    returned,    \* the array the backend list call resolved to, as the backend built it
    fetched,     \* the array object the list promise resolved to, as it is now
    nQueries,    \* number of invocations of the search source so far
    lastQuery,   \* second argument of the latest source invocation
    lastSearch,  \* what the latest source invocation computed
    calls,       \* backend calls made so far, in order
    prompts,     \* prompts shown so far, in order
    failure,     \* the error of the backend call that failed, or noError
    answer,      \* values the user has entered / the backend has returned so far
    result,      \* the value the flow returned
    flowError    \* the error the flow was rejected with, or noError

vars == <<flow, pc, listPromise, returned, fetched, nQueries, lastQuery,
          lastSearch, calls, prompts, failure, answer, result, flowError>>

-----------------------------------------------------------------------------
(* Bounds of the model *)

\* longest list a backend list call returns
MaxLen == 2

\* most invocations of the search source in one prompt
MaxQueries == 3

-----------------------------------------------------------------------------
(* JavaScript values *)

undefined == <<"undefined">>

undefinedObj == [undefined |-> TRUE]

noError == [error |-> "none"]

\* obj.f for an object-typed field f: undefinedObj when obj has no field f
Field(obj, f) == IF f \in DOMAIN obj THEN obj[f] ELSE undefinedObj

\* obj.f for a string-typed field f: undefined when obj has no field f
StringField(obj, f) == IF f \in DOMAIN obj THEN obj[f] ELSE undefined

UpperCase == <<"A","B","C","D","E","F","G","H","I","J","K","L","M",
               "N","O","P","Q","R","S","T","U","V","W","X","Y","Z">>

LowerCase == <<"a","b","c","d","e","f","g","h","i","j","k","l","m",
               "n","o","p","q","r","s","t","u","v","w","x","y","z">>

\* String.prototype.toLowerCase, one character
LowerChar(c) ==
    IF \E i \in 1..26 : UpperCase[i] = c
    THEN LowerCase[CHOOSE i \in 1..26 : UpperCase[i] = c]
    ELSE c

toLowerCase(s) == [i \in 1..Len(s) |-> LowerChar(s[i])]

\* s.split('/').pop(): the part of s after its last '/', all of s if it has none
RECURSIVE LastSegment(_)
LastSegment(s) ==
    IF \E i \in 1..Len(s) : s[i] = "/"
    THEN LET i == CHOOSE k \in 1..Len(s) : s[k] = "/"
         IN  LastSegment(SubSeq(s, i + 1, Len(s)))
    ELSE s

NEW_OPTION == <<"(","~","~","n","e","w","~","~",")">>

DEFAULT_SITE_TYPE == "DEFAULT_SITE"

\* app?.appId && app.appId.split('/').pop()
shortAppId(app) ==
    IF app = undefinedObj \/ StringField(app, "appId") = undefined THEN undefined
    ELSE IF app.appId = <<>> THEN <<>>
    ELSE LastSegment(app.appId)

\* site?.name && site.name.split('/').pop()
shortSiteName(site) ==
    IF site = undefinedObj \/ StringField(site, "name") = undefined THEN undefined
    ELSE IF site.name = <<>> THEN <<>>
    ELSE LastSegment(site.name)

-----------------------------------------------------------------------------
(* The `fuzzy` package, as the adapters call it: fuzzy.filter(input, list,  *)
(* {extract}) with no pre/post and caseSensitive unset.                      *)

\* the loop of fuzzy.match over str, from position idx on: the pattern
\* characters matched in order and the score accumulated
RECURSIVE MatchLoop(_, _, _, _, _, _)
MatchLoop(pattern, compareString, idx, patternIdx, currScore, totalScore) ==
    IF idx > Len(compareString)
    THEN [patternIdx |-> patternIdx, totalScore |-> totalScore]
    ELSE IF patternIdx < Len(pattern) /\ compareString[idx] = pattern[patternIdx + 1]
         THEN MatchLoop(pattern, compareString, idx + 1, patternIdx + 1,
                        1 + 2 * currScore, totalScore + 1 + 2 * currScore)
         ELSE MatchLoop(pattern, compareString, idx + 1, patternIdx, 0, totalScore)

\* fuzzy.match(pattern, str): null (matched = FALSE) unless every character of
\* the pattern occurs in str in order, case ignored; the score is Infinity when
\* the lower-cased string equals the lower-cased pattern
fuzzyMatch(pattern, str) ==
    LET compareString == toLowerCase(str)
        pat == toLowerCase(pattern)
        run == MatchLoop(pat, compareString, 1, 0, 0, 0)
    IN  [matched  |-> run.patternIdx = Len(pat),
         infinite |-> compareString = pat,
         score    |-> run.totalScore]

\* the comparator of fuzzy.filter's sort says a goes before b:
\* compare = b.score - a.score; if (compare) return compare; return a.index - b.index
SortsBefore(a, b) ==
    IF a.infinite /\ b.infinite THEN a.index < b.index
    ELSE IF a.infinite THEN TRUE
    ELSE IF b.infinite THEN FALSE
    ELSE IF a.score # b.score THEN a.score > b.score
    ELSE a.index < b.index

\* Array.prototype.sort under SortsBefore (a total order: the indices differ)
RECURSIVE SortResults(_)
SortResults(rs) ==
    IF rs = {} THEN <<>>
    ELSE LET first == CHOOSE r \in rs : \A o \in rs \ {r} : SortsBefore(r, o)
         IN  <<first>> \o SortResults(rs \ {first})

\* fuzzy.filter(pattern, arr, {extract}) for a string pattern: one wrapper
\* {score, index, original} per element whose extracted text matches, best
\* score first.  (The wrapper's `string` field, the rendered text, is not read
\* by the adapters and is left out.)  texts[i] is extract(arr[i]).
fuzzyFilterString(pattern, arr, texts) ==
    SortResults({ [infinite |-> fuzzyMatch(pattern, texts[i]).infinite,
                   score    |-> fuzzyMatch(pattern, texts[i]).score,
                   index    |-> i - 1,
                   original |-> arr[i]] :
                  i \in { k \in 1..Len(arr) : fuzzyMatch(pattern, texts[k]).matched } })

\* fuzzy.filter(pattern, arr, {extract}):
\*   if (!arr || arr.length === 0) return [];
\*   if (typeof pattern !== 'string') return arr;     -- the elements themselves
fuzzyFilter(pattern, arr, texts) ==
    IF Len(arr) = 0 THEN <<>>
    ELSE IF pattern = undefined THEN arr
    ELSE fuzzyFilterString(pattern, arr, texts)

-----------------------------------------------------------------------------
(* Result normalizer *)

\* isProject with the bug: every element is taken for a raw record
isProjectAlways(elem) == TRUE

\* (elem as { original }).original === undefined
isProject(elem) == Field(elem, "original") = undefinedObj

isApp(elem) == Field(elem, "original") = undefinedObj

isSite(elem) == Field(elem, "original") = undefinedObj

\* if (isProject(result)) { original = result } else { original = result.original }
projectOf(res) == IF isProject(res) THEN res ELSE res.original

appOf(res) == IF isApp(res) THEN res ELSE res.original

siteOf(res) == IF isSite(res) THEN res ELSE res.original

-----------------------------------------------------------------------------
(* Search adapters.  Each takes the array the promise resolved to and the   *)
(* query, and yields                                                        *)
(*   array     the same array object after the handler ran (unshift works   *)
(*             in place),                                                   *)
(*   results   what fuzzy.filter returned,                                  *)
(*   originals the normalized results,                                      *)
(*   choices   the handler's return value.                                  *)

\* '[CREATE NEW PROJECT]'
CreateProjectLabel ==
    <<"[","C","R","E","A","T","E"," ","N","E","W"," ","P","R","O","J","E","C","T","]">>

\* '[CREATE NEW APP]'
CreateAppLabel ==
    <<"[","C","R","E","A","T","E"," ","N","E","W"," ","A","P","P","]">>

\* '[CREATE NEW SITE]'
CreateSiteLabel ==
    <<"[","C","R","E","A","T","E"," ","N","E","W"," ","S","I","T","E","]">>

newProject == [projectId |-> NEW_OPTION, displayName |-> CreateProjectLabel]

newApp == [appId |-> NEW_OPTION, displayName |-> CreateAppLabel]

newSite == [name |-> NEW_OPTION, defaultUrl |-> CreateSiteLabel]

\* unshiftProject with the bug: the create-new entry is not put in
unshiftProjectMissing(projects) == projects

\* projects.unshift({...}): the array with the entry put in front
unshiftProject(projects) == <<newProject>> \o projects

unshiftApp(apps) == <<newApp>> \o apps

unshiftSite(sites) == <<newSite>> \o sites

\* extract(el) { return `${el.projectId} ${el.displayName}` }
extractProject(el) == el.projectId \o <<" ">> \o el.displayName

extractApp(el) == el.displayName

extractSite(el) == el.defaultUrl

searchProjects(projects, input) ==
    LET arr       == unshiftProject(projects)
        results   == fuzzyFilter(input, arr, [i \in 1..Len(arr) |-> extractProject(arr[i])])
        originals == [i \in 1..Len(results) |-> projectOf(results[i])]
    IN  [array     |-> arr,
         results   |-> results,
         originals |-> originals,
         choices   |-> [i \in 1..Len(results) |->
                           [name  |-> StringField(originals[i], "displayName"),
                            title |-> StringField(originals[i], "displayName"),
                            value |-> StringField(originals[i], "projectId")]]]

searchApps(apps, input) ==
    LET arr       == unshiftApp(apps)
        results   == fuzzyFilter(input, arr, [i \in 1..Len(arr) |-> extractApp(arr[i])])
        originals == [i \in 1..Len(results) |-> appOf(results[i])]
    IN  [array     |-> arr,
         results   |-> results,
         originals |-> originals,
         choices   |-> [i \in 1..Len(results) |->
                           [name  |-> StringField(originals[i], "displayName"),
                            title |-> StringField(originals[i], "displayName"),
                            value |-> shortAppId(originals[i])]]]

searchSites(sites, input) ==
    LET arr       == unshiftSite(sites)
        results   == fuzzyFilter(input, arr, [i \in 1..Len(arr) |-> extractSite(arr[i])])
        originals == [i \in 1..Len(results) |-> siteOf(results[i])]
    IN  [array     |-> arr,
         results   |-> results,
         originals |-> originals,
         choices   |-> [i \in 1..Len(results) |->
                           [name  |-> StringField(originals[i], "defaultUrl"),
                            title |-> StringField(originals[i], "defaultUrl"),
                            value |-> shortSiteName(originals[i])]]]

\* the adapter of each flow
search(kind, list, input) ==
    CASE kind = "project" -> searchProjects(list, input)
      [] kind = "app"     -> searchApps(list, input)
      [] kind = "site"    -> searchSites(list, input)

-----------------------------------------------------------------------------
(* What the backend and the user may supply *)

\* sequences over S of length at most n with no element twice
ListsOf(S, n) ==
    { l \in UNION { [1..k -> S] : k \in 0..n } :
        \A i, j \in 1..Len(l) : i # j => l[i] # l[j] }

\* the last one is a record that has a field named `original` of its own
ProjectPool ==
    { [projectId |-> <<"a","b">>,     displayName |-> <<"N","e","w">>],
      [projectId |-> <<"a","b","c">>, displayName |-> <<"X">>],
      [projectId |-> <<"b">>,         displayName |-> <<"a","b">>],
      [projectId |-> <<"c">>,         displayName |-> <<"C">>,
       original  |-> [projectId |-> <<"b">>, displayName |-> <<"a","b">>]] }

\* path-like ids with distinct last segments
AppPool ==
    { [appId |-> <<"w","/","a","b">>,     displayName |-> <<"N","e","w">>],
      [appId |-> <<"w","/","a","b","c">>, displayName |-> <<"X">>],
      [appId |-> <<"w","/","b">>,         displayName |-> <<"a","b">>] }

SitePool ==
    { [name |-> <<"s","/","a","b">>,     defaultUrl |-> <<"a","b",".","a","p","p">>,
       type |-> DEFAULT_SITE_TYPE],
      [name |-> <<"s","/","a","b","c">>, defaultUrl |-> <<"N","e","w",".","a","p","p">>,
       type |-> "USER_SITE"],
      [name |-> <<"b">>,                 defaultUrl |-> <<"b",".","a","p","p">>,
       type |-> "USER_SITE"] }

\* what the list call of a flow may resolve to (for "site": the `sites` field)
BackendLists(kind) ==
    CASE kind = "project" -> ListsOf(ProjectPool, MaxLen)
      [] kind = "app"     -> ListsOf(AppPool, MaxLen)
      [] kind = "site"    -> ListsOf(SitePool, MaxLen)

\* the second argument the prompt passes to the source: undefined before the
\* user has typed, then the text typed so far
Queries ==
    { undefined, <<>>, <<"a","b">>, <<"n","e","w">>, <<"b">>, <<"z">> }

\* the projectId of the project the app and site flows are called with
ProjectArg == <<"a","b">>

\* options.account
AccountArg == "me@x"

\* texts the user may type into an input prompt
Typed == { <<"a","b">>, <<"q">> }

Users == { [email |-> "a@x"], [email |-> "b@x"] }

\* what login.list() may resolve to
LoginLists ==
    { undefinedObj } \cup
    { [accounts |-> l] :
        l \in ListsOf({ [user |-> u] : u \in Users }, MaxLen) }

\* a string as the value of a choice whose other values are objects
Str(s) == [str |-> s]

-----------------------------------------------------------------------------
(* State *)

noSearch == [results |-> <<>>, originals |-> <<>>, choices |-> <<>>]

noAnswer ==
    [selection   |-> undefined,     \* what the selection prompt returned
     projectId   |-> undefined,     \* what the project id prompt returned
     users       |-> undefinedObj,  \* what login.list() resolved to
     firstLogin  |-> undefinedObj,  \* what the bare login() resolved to
     defaultUser |-> undefinedObj,  \* `defaultUser`: what login(options) resolved to
     user        |-> undefinedObj]  \* `user`: what login(options) resolved to

Init ==
    /\ flow = "none"
    /\ pc = "idle"
    /\ listPromise = "none"
    /\ returned = <<>>
    /\ fetched = <<>>
    /\ nQueries = 0
    /\ lastQuery = undefined
    /\ lastSearch = noSearch
    /\ calls = <<>>
    /\ prompts = <<>>
    /\ failure = noError
    /\ answer = noAnswer
    /\ result = undefinedObj
    /\ flowError = noError

\* the error the k-th backend call fails with
ErrorOf(k) == [error |-> calls[k].op, call |-> k]

\* Thrown with the bug: the error is wrapped
ThrownWrapped(e) == [error |-> "PromptError", cause |-> e]

\* what a rejected await throws into the flow: the rejection reason itself
\* (the flows have no try/catch)
Thrown(e) == e

\* the call behind the list promise of the three resource flows
ListCall(kind) ==
    CASE kind = "project" -> [op |-> "projects.list"]
      [] kind = "app"     -> [op |-> "apps.list", platform |-> "web", project |-> ProjectArg]
      [] kind = "site"    -> [op |-> "hosting.sites.list", project |-> ProjectArg]

\* SourceCalls with the bug: the source fetches the list anew on every query
SourceCallsRefetch(kind) == <<ListCall(kind)>>

\* the source of the selection prompt: the adapter bound to the list promise.
\* It reads the shared promise and makes no backend call of its own.
SourceCalls(kind) == <<>>

-----------------------------------------------------------------------------
(* projectPrompt, appPrompt, sitePrompt: up to the selection prompt *)

\* const projects = firebaseTools.projects.list(options);
\* const { projectId } = await autocomplete({ ..., default: defaultProject })
projectPromptStart ==
    /\ pc = "idle"
    /\ \E defaultProject \in { undefined, <<"a","b">> } :
          prompts' = <<[type |-> "autocomplete", name |-> "projectId",
                        default |-> Str(defaultProject)]>>
    /\ flow' = "project"
    /\ calls' = <<ListCall("project")>>
    /\ listPromise' = "pending"
    /\ pc' = "selecting"
    /\ UNCHANGED <<returned, fetched, nQueries, lastQuery, lastSearch, failure,
                   answer, result, flowError>>

\* const apps = firebaseTools.apps.list('web', { ...options, project });
\* const { appId } = await autocomplete({ ..., default: defaultAppId })
appPromptStart ==
    /\ pc = "idle"
    /\ \E defaultAppId \in { undefined, <<"a","b">> } :
          prompts' = <<[type |-> "autocomplete", name |-> "appId",
                        default |-> Str(defaultAppId)]>>
    /\ flow' = "app"
    /\ calls' = <<ListCall("app")>>
    /\ listPromise' = "pending"
    /\ pc' = "selecting"
    /\ UNCHANGED <<returned, fetched, nQueries, lastQuery, lastSearch, failure,
                   answer, result, flowError>>

\* const sites = firebaseTools.hosting.sites.list({ ...options, project }).then(...)
\* const { siteName } = await autocomplete({ ..., default: _ => sites.then(...) })
\* (the default function only reads the resolved array and hands a name to the
\* prompt; it changes nothing the flow reads)
sitePromptStart ==
    /\ pc = "idle"
    /\ prompts' = <<[type |-> "autocomplete", name |-> "siteName",
                     default |-> Str(<<"function">>)]>>
    /\ flow' = "site"
    /\ calls' = <<ListCall("site")>>
    /\ listPromise' = "pending"
    /\ pc' = "selecting"
    /\ UNCHANGED <<returned, fetched, nQueries, lastQuery, lastSearch, failure,
                   answer, result, flowError>>

\* `https://${project}.web.app`
defaultUrlOf(project) ==
    <<"h","t","t","p","s",":","/","/">> \o project \o <<".","w","e","b",".","a","p","p">>

\* the stub of sitePrompt's .then callback
stubSite(project) ==
    [name |-> project, defaultUrl |-> defaultUrlOf(project), type |-> DEFAULT_SITE_TYPE]

\* the array the list promise resolves to when the backend returns list:
\* the backend's own array, but for sites
\*   if (it.sites.length === 0) return [stub] else return it.sites
resolvedList(kind, list) ==
    IF kind = "site" /\ Len(list) = 0 THEN <<stubSite(ProjectArg)>> ELSE list

\* the backend answers the list call
ListResolves ==
    /\ listPromise = "pending"
    /\ \E list \in BackendLists(flow) :
          /\ returned' = list
          /\ fetched' = resolvedList(flow, list)
    /\ listPromise' = "resolved"
    /\ UNCHANGED <<flow, pc, nQueries, lastQuery, lastSearch, calls, prompts,
                   failure, answer, result, flowError>>

\* the list call fails
ListRejects ==
    /\ listPromise = "pending"
    /\ listPromise' = "rejected"
    /\ failure' = ErrorOf(1)
    /\ UNCHANGED <<flow, pc, returned, fetched, nQueries, lastQuery, lastSearch,
                   calls, prompts, answer, result, flowError>>

\* the prompt invokes the source with (answers, input) and the list promise is
\* resolved: the adapter's .then callback runs on the resolved array
Query ==
    /\ pc = "selecting"
    /\ listPromise = "resolved"
    /\ nQueries < MaxQueries
    /\ \E input \in Queries :
          LET s == search(flow, fetched, input)
          IN  /\ fetched' = s.array
              /\ lastSearch' = [results |-> s.results, originals |-> s.originals,
                                choices |-> s.choices]
              /\ lastQuery' = input
    /\ nQueries' = nQueries + 1
    /\ calls' = calls \o SourceCalls(flow)
    /\ UNCHANGED <<flow, pc, listPromise, returned, prompts, failure, answer,
                   result, flowError>>

\* the same on a rejected list promise: promise.then(...) is rejected too
QueryRejected ==
    /\ pc = "selecting"
    /\ listPromise = "rejected"
    /\ nQueries < MaxQueries
    /\ \E input \in Queries : lastQuery' = input
    /\ nQueries' = nQueries + 1
    /\ calls' = calls \o SourceCalls(flow)
    /\ UNCHANGED <<flow, pc, listPromise, returned, fetched, lastSearch, prompts,
                   failure, answer, result, flowError>>

\* the prompt surfaces the rejection of its source: the await of the prompt
\* throws.  (A prompt that swallows the rejection leaves the flow waiting:
\* the behaviours in which this step is never taken.)
PromptRejects ==
    /\ pc = "selecting"
    /\ listPromise = "rejected"
    /\ nQueries > 0
    /\ flowError' = Thrown(failure)
    /\ pc' = "failed"
    /\ UNCHANGED <<flow, listPromise, returned, fetched, nQueries, lastQuery,
                   lastSearch, calls, prompts, failure, answer, result>>

-----------------------------------------------------------------------------
(* After the selection prompt *)

\* s.includes(sub)
Includes(s, sub) ==
    \E k \in 1..(Len(s) - Len(sub) + 1) : SubSeq(s, k, k + Len(sub) - 1) = sub

\* findProject with the bug: the id is matched by containment, not equality
findProjectIncludes(projects, projectId) ==
    LET hits == { i \in 1..Len(projects) : Includes(projects[i].projectId, projectId) }
    IN  IF hits = {} THEN undefinedObj
        ELSE projects[CHOOSE i \in hits : \A j \in hits : i <= j]

\* Array.prototype.find: the first element satisfying the test, else undefined
findProject(projects, projectId) ==
    LET hits == { i \in 1..Len(projects) : projects[i].projectId = projectId }
    IN  IF hits = {} THEN undefinedObj
        ELSE projects[CHOOSE i \in hits : \A j \in hits : i <= j]

findApp(apps, appId) ==
    LET hits == { i \in 1..Len(apps) : shortAppId(apps[i]) = appId }
    IN  IF hits = {} THEN undefinedObj
        ELSE apps[CHOOSE i \in hits : \A j \in hits : i <= j]

findSite(sites, siteName) ==
    LET hits == { i \in 1..Len(sites) : shortSiteName(sites[i]) = siteName }
    IN  IF hits = {} THEN undefinedObj
        ELSE sites[CHOOSE i \in hits : \A j \in hits : i <= j]

\* (await projects).find(it => it.projectId === projectId)  and its two likes
lookup(kind, list, id) ==
    CASE kind = "project" -> findProject(list, id)
      [] kind = "app"     -> findApp(list, id)
      [] kind = "site"    -> findSite(list, id)

\* the values the selection prompt can return: those of the choices it shows
Selectable == { lastSearch.choices[i].value : i \in 1..Len(lastSearch.choices) }

\* isNewOption with the bug: the selection is compared with the label
isNewOptionLabel(value) == value = CreateProjectLabel

\* the selection is a create request:  if (projectId === NEW_OPTION)
isNewOption(value) == value = NEW_OPTION

\* the prompt returns a value other than NEW_OPTION: the flow returns the
\* record found in the resolved array
SelectExisting ==
    /\ pc = "selecting"
    /\ listPromise = "resolved"
    /\ \E value \in Selectable :
          /\ ~isNewOption(value)
          /\ answer' = [answer EXCEPT !.selection = value]
          /\ result' = lookup(flow, fetched, value)
    /\ pc' = "Selected"
    /\ UNCHANGED <<flow, listPromise, returned, fetched, nQueries, lastQuery,
                   lastSearch, calls, prompts, failure, flowError>>

\* projectPrompt, the prompt returns NEW_OPTION: ask for the project id
projectSelectNew ==
    /\ pc = "selecting"
    /\ flow = "project"
    /\ listPromise = "resolved"
    /\ \E value \in Selectable :
          /\ isNewOption(value)
          /\ answer' = [answer EXCEPT !.selection = value]
    /\ prompts' = Append(prompts, [type |-> "input", name |-> "projectId",
                                   default |-> Str(undefined)])
    /\ pc' = "askProjectId"
    /\ UNCHANGED <<flow, listPromise, returned, fetched, nQueries, lastQuery,
                   lastSearch, calls, failure, result, flowError>>

\* the user enters the project id: ask for the display name, default: projectId
projectIdEntered ==
    /\ pc = "askProjectId"
    /\ \E projectId \in Typed :
          /\ answer' = [answer EXCEPT !.projectId = projectId]
          /\ prompts' = Append(prompts, [type |-> "input", name |-> "displayName",
                                         default |-> Str(projectId)])
    /\ pc' = "askDisplayName"
    /\ UNCHANGED <<flow, listPromise, returned, fetched, nQueries, lastQuery,
                   lastSearch, calls, failure, result, flowError>>

\* the user enters the display name, or accepts the default:
\* firebaseTools.projects.create(projectId, { account, displayName, nonInteractive: true })
projectNameEntered ==
    /\ pc = "askDisplayName"
    /\ \E displayName \in Typed \cup { prompts[Len(prompts)].default.str } :
          calls' = Append(calls, [op |-> "projects.create",
                                  projectId |-> answer.projectId,
                                  account |-> AccountArg,
                                  displayName |-> displayName,
                                  nonInteractive |-> TRUE])
    /\ pc' = "creating"
    /\ UNCHANGED <<flow, listPromise, returned, fetched, nQueries, lastQuery,
                   lastSearch, prompts, failure, answer, result, flowError>>

\* appPrompt, the prompt returns NEW_OPTION: ask for the display name
appSelectNew ==
    /\ pc = "selecting"
    /\ flow = "app"
    /\ listPromise = "resolved"
    /\ \E value \in Selectable :
          /\ isNewOption(value)
          /\ answer' = [answer EXCEPT !.selection = value]
    /\ prompts' = Append(prompts, [type |-> "input", name |-> "displayName",
                                   default |-> Str(undefined)])
    /\ pc' = "askAppName"
    /\ UNCHANGED <<flow, listPromise, returned, fetched, nQueries, lastQuery,
                   lastSearch, calls, failure, result, flowError>>

\* firebaseTools.apps.create('web', displayName, { ...options, nonInteractive: true, project })
appNameEntered ==
    /\ pc = "askAppName"
    /\ \E displayName \in Typed \cup { <<>> } :
          calls' = Append(calls, [op |-> "apps.create", platform |-> "web",
                                  displayName |-> displayName,
                                  nonInteractive |-> TRUE, project |-> ProjectArg])
    /\ pc' = "creating"
    /\ UNCHANGED <<flow, listPromise, returned, fetched, nQueries, lastQuery,
                   lastSearch, prompts, failure, answer, result, flowError>>

\* sitePrompt, the prompt returns NEW_OPTION: ask for the subdomain
siteSelectNew ==
    /\ pc = "selecting"
    /\ flow = "site"
    /\ listPromise = "resolved"
    /\ \E value \in Selectable :
          /\ isNewOption(value)
          /\ answer' = [answer EXCEPT !.selection = value]
    /\ prompts' = Append(prompts, [type |-> "input", name |-> "subdomain",
                                   default |-> Str(undefined)])
    /\ pc' = "askSubdomain"
    /\ UNCHANGED <<flow, listPromise, returned, fetched, nQueries, lastQuery,
                   lastSearch, calls, failure, result, flowError>>

\* firebaseTools.hosting.sites.create(subdomain, { ...options, nonInteractive: true, project })
subdomainEntered ==
    /\ pc = "askSubdomain"
    /\ \E subdomain \in Typed \cup { <<>> } :
          calls' = Append(calls, [op |-> "hosting.sites.create",
                                  subdomain |-> subdomain,
                                  nonInteractive |-> TRUE, project |-> ProjectArg])
    /\ pc' = "creating"
    /\ UNCHANGED <<flow, listPromise, returned, fetched, nQueries, lastQuery,
                   lastSearch, prompts, failure, answer, result, flowError>>

\* return await firebaseTools.<kind>.create(...): the flow returns the record
\* the backend created
CreateResolves ==
    /\ pc = "creating"
    /\ result' = [created |-> calls[Len(calls)]]
    /\ pc' = "CreateNew"
    /\ UNCHANGED <<flow, listPromise, returned, fetched, nQueries, lastQuery,
                   lastSearch, calls, prompts, failure, answer, flowError>>

-----------------------------------------------------------------------------
(* userPrompt *)

\* const users = await firebaseTools.login.list();
userPromptStart ==
    /\ pc = "idle"
    /\ flow' = "user"
    /\ calls' = <<[op |-> "login.list"]>>
    /\ pc' = "listingUsers"
    /\ UNCHANGED <<listPromise, returned, fetched, nQueries, lastQuery, lastSearch,
                   prompts, failure, answer, result, flowError>>

\* noUsers with the bug: the empty list is not taken for "no account"
noUsersOnlyUndefined(users) == users = undefinedObj

\* !users || users.length === 0
noUsers(users) == users = undefinedObj \/ Len(users.accounts) = 0

\* login.list() resolves; the flow calls login() when there is no account and
\* login(options) otherwise
loginListResolves ==
    /\ pc = "listingUsers"
    /\ \E users \in LoginLists :
          /\ answer' = [answer EXCEPT !.users = users]
          /\ IF noUsers(users)
             THEN /\ calls' = Append(calls, [op |-> "login", args |-> "none"])
                  /\ pc' = "firstLogin"
             ELSE /\ calls' = Append(calls, [op |-> "login", args |-> "options"])
                  /\ pc' = "defaultLogin"
    /\ UNCHANGED <<flow, listPromise, returned, fetched, nQueries, lastQuery,
                   lastSearch, prompts, failure, result, flowError>>

\* await firebaseTools.login(); const user = await firebaseTools.login(options);
\* return user  -- of the two resolved values, the second
zeroAccountsReturn(first, second) == second

\* await firebaseTools.login() is over; const user = await firebaseTools.login(options)
firstLoginResolves ==
    /\ pc = "firstLogin"
    /\ \E value \in Users \cup { undefinedObj } :
          answer' = [answer EXCEPT !.firstLogin = value]
    /\ calls' = Append(calls, [op |-> "login", args |-> "options"])
    /\ pc' = "secondLogin"
    /\ UNCHANGED <<flow, listPromise, returned, fetched, nQueries, lastQuery,
                   lastSearch, prompts, failure, result, flowError>>

\* return user
secondLoginResolves ==
    /\ pc = "secondLogin"
    /\ \E user \in Users :
          /\ answer' = [answer EXCEPT !.user = user]
          /\ result' = zeroAccountsReturn(answer.firstLogin, user)
    /\ pc' = "LoggedIn"
    /\ UNCHANGED <<flow, listPromise, returned, fetched, nQueries, lastQuery,
                   lastSearch, calls, prompts, failure, flowError>>

\* users.map(({user}) => ({ name: user.email, value: user }))
userChoices(users) ==
    [i \in 1..Len(users.accounts) |->
        [name |-> users.accounts[i].user.email, value |-> users.accounts[i].user]]

\* { name: '[Login in with another account]', value: NEW_OPTION }
newChoice == [name |-> "[Login in with another account]", value |-> Str(NEW_OPTION)]

\* choices.find(it => it.value.email === defaultUser.email)?.value
defaultChoice(choices, defaultUser) ==
    LET hits == { i \in 1..Len(choices) : choices[i].value.email = defaultUser.email }
    IN  IF hits = {} THEN undefinedObj
        ELSE choices[CHOOSE i \in hits : \A j \in hits : i <= j].value

\* const defaultUser = await firebaseTools.login(options) is over: the list
\* prompt is shown with [newChoice].concat(choices)
defaultLoginResolves ==
    /\ pc = "defaultLogin"
    /\ \E defaultUser \in Users :
          /\ answer' = [answer EXCEPT !.defaultUser = defaultUser]
          /\ prompts' = Append(prompts,
                [type |-> "list", name |-> "user",
                 choices |-> <<newChoice>> \o userChoices(answer.users),
                 default |-> defaultChoice(userChoices(answer.users), defaultUser)])
    /\ pc' = "choosingUser"
    /\ UNCHANGED <<flow, listPromise, returned, fetched, nQueries, lastQuery,
                   lastSearch, calls, failure, result, flowError>>

\* the user picks an account: return user
userChosen ==
    /\ pc = "choosingUser"
    /\ \E i \in 1..Len(prompts[1].choices) :
          /\ prompts[1].choices[i].value # Str(NEW_OPTION)
          /\ result' = prompts[1].choices[i].value
    /\ pc' = "Selected"
    /\ UNCHANGED <<flow, listPromise, returned, fetched, nQueries, lastQuery,
                   lastSearch, calls, prompts, failure, answer, flowError>>

\* the user picks the new choice: const { user } = await firebaseTools.login.add()
userChoosesNew ==
    /\ pc = "choosingUser"
    /\ \E i \in 1..Len(prompts[1].choices) :
          prompts[1].choices[i].value = Str(NEW_OPTION)
    /\ calls' = Append(calls, [op |-> "login.add"])
    /\ pc' = "addingUser"
    /\ UNCHANGED <<flow, listPromise, returned, fetched, nQueries, lastQuery,
                   lastSearch, prompts, failure, answer, result, flowError>>

\* login.add() resolves: return user
loginAddResolves ==
    /\ pc = "addingUser"
    /\ \E user \in Users : result' = user
    /\ pc' = "CreateNew"
    /\ UNCHANGED <<flow, listPromise, returned, fetched, nQueries, lastQuery,
                   lastSearch, calls, prompts, failure, answer, flowError>>

-----------------------------------------------------------------------------
(* Failure of an awaited backend call *)

\* the positions at which the flow awaits the backend call it made last
Awaiting ==
    { "listingUsers", "firstLogin", "secondLogin", "defaultLogin", "addingUser",
      "creating" }

\* the awaited call fails: the await throws and, with no try/catch around it,
\* the flow is rejected
AwaitedCallRejects ==
    /\ pc \in Awaiting
    /\ failure' = ErrorOf(Len(calls))
    /\ flowError' = Thrown(ErrorOf(Len(calls)))
    /\ pc' = "failed"
    /\ UNCHANGED <<flow, listPromise, returned, fetched, nQueries, lastQuery,
                   lastSearch, calls, prompts, answer, result>>

-----------------------------------------------------------------------------

Next ==
    \/ projectPromptStart
    \/ appPromptStart
    \/ sitePromptStart
    \/ ListResolves
    \/ ListRejects
    \/ Query
    \/ QueryRejected
    \/ PromptRejects
    \/ SelectExisting
    \/ projectSelectNew
    \/ projectIdEntered
    \/ projectNameEntered
    \/ appSelectNew
    \/ appNameEntered
    \/ siteSelectNew
    \/ subdomainEntered
    \/ CreateResolves
    \/ userPromptStart
    \/ loginListResolves
    \/ firstLoginResolves
    \/ secondLoginResolves
    \/ defaultLoginResolves
    \/ userChosen
    \/ userChoosesNew
    \/ loginAddResolves
    \/ AwaitedCallRejects

Spec == Init /\ [][Next]_vars

-----------------------------------------------------------------------------
(* Properties *)

ResourceFlows == { "project", "app", "site" }

ListOps == { "projects.list", "apps.list", "hosting.sites.list" }

CreateOps == { "projects.create", "apps.create", "hosting.sites.create" }

\* the positions at which a flow has returned a value
ReturnedAt == { "Selected", "CreateNew", "LoggedIn" }

\* how many of the backend calls made so far are calls of an operation in ops
CallsOf(ops) == Cardinality({ i \in 1..Len(calls) : calls[i].op \in ops })

\* the short identifier of a candidate of the given kind
shortId(kind, el) ==
    CASE kind = "project" -> el.projectId
      [] kind = "app"     -> shortAppId(el)
      [] kind = "site"    -> shortSiteName(el)

\* the create-new entry of the given kind
newEntry(kind) ==
    CASE kind = "project" -> newProject
      [] kind = "app"     -> newApp
      [] kind = "site"    -> newSite

\* the choice the adapter of the given kind makes of a candidate
choiceOf(kind, el) ==
    CASE kind = "project" ->
            [name |-> el.displayName, title |-> el.displayName, value |-> el.projectId]
      [] kind = "app" ->
            [name |-> el.displayName, title |-> el.displayName, value |-> shortAppId(el)]
      [] kind = "site" ->
            [name |-> el.defaultUrl, title |-> el.defaultUrl, value |-> shortSiteName(el)]

\* the candidates the list promise resolved to
Candidates == resolvedList(flow, returned)

\* the choices of the latest query whose value is the sentinel
SentinelChoices ==
    { i \in 1..Len(lastSearch.choices) : lastSearch.choices[i].value = NEW_OPTION }

\* the sequence s without the elements at the positions in drop
RECURSIVE Without(_, _)
Without(s, drop) ==
    IF s = <<>> THEN <<>>
    ELSE Without(SubSeq(s, 1, Len(s) - 1), drop)
         \o (IF Len(s) \in drop THEN <<>> ELSE <<s[Len(s)]>>)

\* C1: in a project, app or site flow the backend list operation has been
\* called exactly once from the start of the flow on, however many times the
\* source was invoked and also after the final lookup
C1_ListCalledOnce ==
    flow \in ResourceFlows =>
        /\ CallsOf(ListOps) = 1
        /\ calls[1] = ListCall(flow)

\* C1 witness: a flow that returned the selected record after three queries
C1_Witness ==
    /\ flow \in ResourceFlows
    /\ pc = "Selected"
    /\ nQueries >= 3
    /\ result # undefinedObj

\* C2: the array the list promise resolved to still holds exactly what the
\* backend returned, in the same order
C2_ListNotMutated ==
    listPromise = "resolved" => fetched = Candidates

\* C3: a query handler invocation with an empty query string returns the N
\* candidates in their order plus exactly one create-new choice
C3_EmptyQueryChoices ==
    (flow \in ResourceFlows /\ listPromise = "resolved" /\ nQueries >= 1 /\ lastQuery = <<>>) =>
        /\ Len(lastSearch.choices) = Len(Candidates) + 1
        /\ Cardinality(SentinelChoices) = 1
        /\ Without(lastSearch.choices, SentinelChoices)
              = [i \in 1..Len(Candidates) |-> choiceOf(flow, Candidates[i])]

\* is the query a case-insensitive subsequence of the text
RECURSIVE IsSubsequence(_, _)
IsSubsequence(q, text) ==
    IF q = <<>> THEN TRUE
    ELSE IF text = <<>> THEN FALSE
    ELSE IF LowerChar(q[1]) = LowerChar(text[1])
         THEN IsSubsequence(Tail(q), Tail(text))
         ELSE IsSubsequence(q, Tail(text))

\* the text the adapter of the given kind searches for the create-new entry
newEntryText(kind) ==
    CASE kind = "project" -> NEW_OPTION \o <<" ">> \o CreateProjectLabel
      [] kind = "app"     -> CreateAppLabel
      [] kind = "site"    -> CreateSiteLabel

\* C4 as claimed: whatever the query, the choices of a query handler
\* invocation include one whose value is the sentinel
C4_SentinelForAnyQuery ==
    (flow \in ResourceFlows /\ listPromise = "resolved" /\ nQueries >= 1) =>
        SentinelChoices # {}

\* C4 as amended: the choices include one whose value is the sentinel when the
\* query is absent (undefined), empty, or a case-insensitive subsequence of the
\* create-new entry's search text
C4_SentinelWhenMatching ==
    (flow \in ResourceFlows /\ listPromise = "resolved" /\ nQueries >= 1) =>
        ((lastQuery = undefined \/ IsSubsequence(lastQuery, newEntryText(flow)))
            => SentinelChoices # {})

\* C4 witness: a non-empty query that matches the create-new entry, on the
\* second invocation, with the sentinel among the choices
C4_Witness ==
    /\ flow = "project"
    /\ listPromise = "resolved"
    /\ nQueries = 2
    /\ lastQuery = <<"n","e","w">>
    /\ Len(returned) = 2
    /\ SentinelChoices # {}

\* C5: when the prompt returns the short identifier of a candidate of the
\* resolved list, the flow returns a candidate the backend returned whose short
\* identifier equals it, not the create-new entry, and creates nothing
C5_SelectedIsExactMatch ==
    (/\ flow \in ResourceFlows
     /\ pc = "Selected"
     /\ \E i \in 1..Len(Candidates) : shortId(flow, Candidates[i]) = answer.selection) =>
        /\ \E i \in 1..Len(Candidates) : result = Candidates[i]
        /\ shortId(flow, result) = answer.selection
        /\ result # newEntry(flow)
        /\ CallsOf(CreateOps) = 0

\* C5 witness: "ab" selected after two queries from a list that holds "abc"
\* before "ab"
C5_Witness ==
    /\ flow = "project"
    /\ pc = "Selected"
    /\ nQueries >= 2
    /\ answer.selection = <<"a","b">>
    /\ Len(returned) = 2
    /\ returned[1].projectId = <<"a","b","c">>
    /\ result = returned[2]

\* C6: in projectPrompt, projects.create is called only after the prompt
\* returned the sentinel, once, after the project id prompt and the display
\* name prompt (default: the entered id), with the entered id and {account,
\* displayName, nonInteractive: true}; a flow that returned after the sentinel
\* returned the created record, and one that returned after another value
\* created nothing
C6_ProjectCreate ==
    flow = "project" =>
        /\ CallsOf(CreateOps) <= 1
        /\ CallsOf(CreateOps) = 1 =>
              /\ answer.selection = NEW_OPTION
              /\ Len(prompts) = 3
              /\ prompts[2] = [type |-> "input", name |-> "projectId",
                               default |-> Str(undefined)]
              /\ prompts[3] = [type |-> "input", name |-> "displayName",
                               default |-> Str(answer.projectId)]
              /\ Len(calls) = 2
              /\ calls[2].op = "projects.create"
              /\ calls[2].projectId = answer.projectId
              /\ calls[2].account = AccountArg
              /\ calls[2].nonInteractive = TRUE
              /\ calls[2].displayName \in Typed \cup { answer.projectId }
        /\ pc \in ReturnedAt =>
              IF answer.selection = NEW_OPTION
              THEN /\ pc = "CreateNew"
                   /\ CallsOf(CreateOps) = 1
                   /\ result = [created |-> calls[2]]
              ELSE /\ pc = "Selected"
                   /\ CallsOf(CreateOps) = 0

\* C6 witness: a project created under the default display name
C6_Witness ==
    /\ flow = "project"
    /\ pc = "CreateNew"
    /\ calls[2].displayName = answer.projectId
    /\ calls[2].projectId = <<"q">>

\* the three calls of userPrompt when there is no account
ZeroAccountCalls ==
    <<[op |-> "login.list"], [op |-> "login", args |-> "none"],
      [op |-> "login", args |-> "options"]>>

\* C7: in userPrompt, once login.list() has resolved to undefined or to the
\* empty list, the calls made are login.list(), login(), login(options) in this
\* order and no other, no prompt is shown, login.add() is not called, and a
\* flow that returned made all three and returned what login(options) resolved to
C7_ZeroAccounts ==
    (/\ flow = "user"
     /\ Len(calls) >= 2
     /\ IF answer.users = undefinedObj THEN TRUE ELSE Len(answer.users.accounts) = 0) =>
        /\ Len(calls) <= 3
        /\ calls = SubSeq(ZeroAccountCalls, 1, Len(calls))
        /\ prompts = <<>>
        /\ CallsOf({ "login.add" }) = 0
        /\ pc \in ReturnedAt =>
              /\ pc = "LoggedIn"
              /\ Len(calls) = 3
              /\ result = answer.user

\* C7 witness: the flow returned with an empty account list, the two logins
\* having resolved to different users
C7_Witness ==
    /\ flow = "user"
    /\ pc = "LoggedIn"
    /\ answer.users = [accounts |-> <<>>]
    /\ answer.firstLogin \in Users
    /\ answer.firstLogin # answer.user
    /\ result = answer.user

\* C8: in sitePrompt the array the adapter filters holds, when the backend
\* returned no site, exactly the create-new entry and one default-site stub,
\* and otherwise nothing but create-new entries and the backend's sites
C8_SitePool ==
    (flow = "site" /\ listPromise = "resolved" /\ nQueries >= 1) =>
        IF returned = <<>>
        THEN fetched = <<newSite, stubSite(ProjectArg)>>
        ELSE \A i \in 1..Len(fetched) :
                \/ fetched[i] = newSite
                \/ \E j \in 1..Len(returned) : fetched[i] = returned[j]

candidateOf(i) ==
    IF lastQuery = undefined
    THEN lastSearch.results[i]
    ELSE fetched[lastSearch.results[i].index + 1]

\* C10 as claimed: the normalizer returns the candidate for every result,
\* raw or wrapped
C10_NormalizeReturnsCandidate ==
    (flow \in ResourceFlows /\ nQueries >= 1) =>
        \A i \in 1..Len(lastSearch.results) : lastSearch.originals[i] = candidateOf(i)

\* C10 as amended: the normalizer returns the candidate for every wrapper and
\* for every raw record that has no `original` field of its own; for a raw
\* record that has one it returns the value of that field
C10_NormalizeUnlessOwnOriginal ==
    (flow \in ResourceFlows /\ nQueries >= 1) =>
        \A i \in 1..Len(lastSearch.results) :
            IF lastQuery = undefined /\ "original" \in DOMAIN lastSearch.results[i]
            THEN lastSearch.originals[i] = lastSearch.results[i].original
            ELSE lastSearch.originals[i] = candidateOf(i)

\* C10 witness: an empty query whose results wrap the create-new entry and two
\* candidates, one of them a record with an `original` field of its own
C10_Witness ==
    /\ flow = "project"
    /\ nQueries >= 1
    /\ lastQuery = <<>>
    /\ Len(lastSearch.results) = 3
    /\ \E i \in 1..3 : "original" \in DOMAIN lastSearch.results[i].original
    /\ \A i \in 1..3 : lastSearch.originals[i] = lastSearch.results[i].original

=============================================================================
